---- MODULE Spec2Model ----
(***************************************************************************)
(* Storyboard production service: the persistence layer (storyboards,      *)
(* production_jobs, scene_matches, generated_assets), the HTTP handlers    *)
(* that write it (match, produce, override, cancel) and the background job *)
(* processor processProductionJob.                                         *)
(*                                                                         *)
(* Granularity.  The database is better-sqlite3 behind drizzle             *)
(* (db/index.ts:1-13): its calls are synchronous, so a handler whose only  *)
(* awaits are database calls runs to completion before any other request   *)
(* or timer callback; such a handler is one action.  The job processor is  *)
(* followed await by await, so that every status it stores is a state of   *)
(* the model, and the collaborators' answers (generation service, renderer,*)
(* search, health) are inputs of the step that awaits them.                *)
(*                                                                         *)
(* Numbers.  The weights and the five sub-scores of a candidate are in     *)
(* hundredths (0.72 is 72); a composite, a match score and a confidence    *)
(* are in ten-thousandths (0.78 is 7800), so that the weighted sum is      *)
(* exact.  A job's progress is kept in units of 1/(100 * NScenes), so      *)
(* 0.1 + 0.7 * i/n is exact.  Times are in milliseconds.                   *)
(***************************************************************************)
EXTENDS Integers, Sequences, FiniteSets, TLC

\* ------------------------------------------------------------------ bounds
NScenes == 2          \* scenes of the storyboard
MaxJobs == 2          \* production requests accepted
MaxMatchPasses == 1   \* matching passes requested
MaxOverrides == 1     \* manual overrides requested
MaxCandidates == 2    \* candidates the search returns for a scene
MaxRanked == 4        \* candidates of a search result that is ranked
MaxClips == 3         \* resolved assets handed to the assembler
MaxSequence == 2      \* sequence positions a request can give a scene
MaxProductions == 1   \* production requests for a storyboard that was revised

Scenes == 1..NScenes

\* --------------------------------------------------------------- constants
compositeMinimum == 7800
excellentMatch == 9000

NoAsset == <<>>              \* null asset id / path / output path
NoScore == -1                \* null matchScore
NoSource == "null"           \* null assetSource
NoError == "null"            \* null error column
Undefined == <<"undefined">> \* an argument left out of a call

StoryboardId == "sb_1"
StoryboardIds == {StoryboardId, "sb_missing"}

\* Messages of the errors the collaborators and the code raise.
GenerationFailedMsg == "LTX-2 generation failed: CUDA out of memory"
TimeoutMsg == "LTX-2 generation timed out after 600s"
SubmitErrorMsg == "[POST] text-to-video: fetch failed"
DownloadErrorMsg == "[GET] download: fetch failed"
RenderErrorMsg == "ffmpeg exited with code 1"
CatalogErrorMsg == "No video stream found"
CancelMsg == "Cancelled by user"

\* What a search for a scene's candidates can come to: the composite of the
\* best scored candidate (0: no candidate passes the semantic floor).
TopComposites == {0, 8000, 9500}

LibAsset(s) == <<"lib", s>>
LibPath(s) == <<"libpath", s>>
ManualAsset == <<"manual", 1>>
ManualPath == <<"manualpath", 1>>
GenAsset(j, s) == <<"gen", j, s>>
GenPath(j, s) == <<"genfile", j, s>>
OutputPath(j) == <<"out", j>>

VARIABLES
    scenesJson,       \* storyboards.scenes_json of the storyboard: the scenes in stored order
    storyboardRow,    \* the other columns of its storyboards row, besides the time stamps
    sceneMatches,     \* scene_matches rows, in insertion order
    generatedAssets,  \* generated_assets rows, in insertion order
    productionJobs,   \* production_jobs rows; the job id is the index
    task,             \* processProductionJob of each job: position and locals
    matchPass,        \* the running POST /:id/match request, and how many were made
    overrides,        \* number of override requests served
    response,         \* the last response of POST /:id/produce
    poll,             \* pollUntilComplete taken on its own: clock and position
    search,           \* matchSceneToAssets taken on its own: candidates, result
    styled,           \* calculateStyleScore taken on its own: arguments, result
    assembly          \* assembleStoryboard taken on its own: inputs, filter plan

\* The components that are also run on their own, outside the service.
componentVars == <<poll, search, styled, assembly>>

vars == <<scenesJson, storyboardRow, sceneMatches, generatedAssets, productionJobs, task,
          matchPass, overrides, response, componentVars>>

\* ------------------------------------------------------------------ scenes
\* The mutable resolution fields of a scene, as created by POST /.
NewScene ==
    [matchedAssetId |-> NoAsset, matchScore |-> NoScore,
     assetSource |-> NoSource, needsReview |-> FALSE]

\* ----------------------------------------------------------------- matcher
\* Variant of the flag with the two bounds exchanged in strictness.
NeedsReviewStrict(composite) ==
    composite > compositeMinimum /\ composite <= excellentMatch

\* The review flag of a scored candidate.
NeedsReview(composite) ==
    composite >= compositeMinimum /\ composite < excellentMatch

\* matchSceneToAssets, as far as the handlers use it: the sorted list of
\* scored candidates of scene s when the best composite is top.
matchSceneToAssets(s, top) ==
    IF top = 0 THEN <<>>
    ELSE << [assetId |-> LibAsset(s), filepath |-> LibPath(s),
             compositeScore |-> top, needsReview |-> NeedsReview(top)] >>

NoMatch == [assetId |-> NoAsset]

\* The scene fields and the scene_matches row the matching pass writes for
\* a best match.
MatchedScene(scene, best) ==
    [scene EXCEPT !.matchedAssetId = best.assetId,
                  !.matchScore = best.compositeScore,
                  !.assetSource = "existing",
                  !.needsReview = best.needsReview]

MatchRow(s, best) ==
    [sceneId |-> s, assetId |-> best.assetId, assetPath |-> best.filepath,
     source |-> "existing", compositeScore |-> best.compositeScore,
     needsReview |-> best.needsReview]

\* Variant that takes the top match only above the threshold.
getBestMatchStrict(matches) ==
    IF Len(matches) = 0 THEN NoMatch
    ELSE IF matches[1].compositeScore > compositeMinimum THEN matches[1]
    ELSE NoMatch

getBestMatch(matches) ==
    IF Len(matches) = 0 THEN NoMatch
    ELSE IF matches[1].compositeScore >= compositeMinimum THEN matches[1]
    ELSE NoMatch

\* -------------------------------------------------------------------- jobs
\* Variant that counts the scenes left after scene i.
LoopProgressCountingDown(i0) == 10 * NScenes + 70 * (NScenes - 1 - i0)

\* 0.1 + 0.7 * (i / totalScenes), i counted from 0.
LoopProgress(i0) == 10 * NScenes + 70 * i0
AssemblingProgress == 85 * NScenes
CompletedProgress == 100 * NScenes

NewJob ==
    [storyboardId |-> StoryboardId, status |-> "pending", progress |-> 0,
     outputPath |-> NoAsset, error |-> NoError]

NewTask ==
    [pc |-> "start", i |-> 1, scenes |-> [s \in Scenes |-> NewScene],
     resolvedAssets |-> <<>>, submits |-> [s \in Scenes |-> 0],
     searches |-> 0, renderer |-> "none", thrown |-> NoError,
     thrownAt |-> "none", catalogErrors |-> {},
     row |-> [s \in Scenes |-> NewScene]]

\* updateJobStatus: drizzle leaves a column whose value is undefined alone.
updateJobStatus(j, status, progress, outputPath) ==
    productionJobs' = [productionJobs EXCEPT
        ![j].status = status,
        ![j].progress = progress,
        ![j].outputPath = IF outputPath = Undefined THEN @ ELSE outputPath]

JobIds == 1..Len(productionJobs)

\* The columns of the storyboards row that POST / fills from a request
\* without output settings.
NewStoryboardRow ==
    [title |-> "title", outputWidth |-> 1920, outputHeight |-> 1080,
     outputFps |-> 30]

\* No call of pollUntilComplete is being followed on its own.
NoPoll == [pc |-> "none"]

\* No call of matchSceneToAssets is being followed on its own.
NoSearch == [pc |-> "none"]

\* No call of calculateStyleScore is being followed on its own.
NoStyled == [pc |-> "none"]

\* No call of assembleStoryboard is being followed on its own.
NoAssembly == [pc |-> "none"]

Init ==
    /\ storyboardRow = NewStoryboardRow
    /\ scenesJson = [s \in Scenes |-> NewScene]
    /\ sceneMatches = <<>>
    /\ generatedAssets = <<>>
    /\ productionJobs = <<>>
    /\ task = <<>>
    /\ matchPass = [pc |-> "idle", made |-> 0, k |-> 1,
                    scenes |-> [s \in Scenes |-> NewScene], results |-> <<>>]
    /\ overrides = 0
    /\ response = [code |-> 0, id |-> "none", health |-> "none",
                   jobsBefore |-> 0]
    /\ poll = NoPoll
    /\ search = NoSearch
    /\ styled = NoStyled
    /\ assembly = NoAssembly


\* ------------------------------------------------- POST /:id/produce
HealthAnswers == {"healthy", "degraded", "unreachable"}

\* Variant that takes any answer of the collaborator for a healthy one.
checkHealthAnyAnswer(answer) == answer # "unreachable"

\* checkHealth: true only for an answer whose status is 'healthy'; a failed
\* request counts as unhealthy.
checkHealth(answer) == answer = "healthy"

\* The long-running operations on the storyboard (a production, a matching
\* pass) are requested one after the other.
Quiet ==
    /\ \A j \in JobIds : task[j].pc = "done"
    /\ matchPass.pc = "idle"

Produce(id, answer) ==
    /\ response' = [code |-> IF id # StoryboardId THEN 404
                             ELSE IF ~checkHealth(answer) THEN 503 ELSE 202,
                    id |-> id, health |-> answer,
                    jobsBefore |-> Len(productionJobs)]
    /\ IF id = StoryboardId /\ checkHealth(answer)
       THEN /\ Len(productionJobs) < MaxJobs
            /\ Quiet
            /\ productionJobs' = Append(productionJobs, NewJob)
            /\ task' = Append(task, NewTask)
       ELSE UNCHANGED <<productionJobs, task>>
    /\ UNCHANGED <<scenesJson, storyboardRow, sceneMatches, generatedAssets, matchPass,
                   overrides>>

\* ------------------------------------------------- DELETE /:jobId
\* Variant that does not look at the status of the job.
CancelAnyStatus(j) ==
    /\ IF j \notin JobIds
       THEN UNCHANGED productionJobs
       ELSE productionJobs' = [productionJobs EXCEPT
                ![j].status = "failed", ![j].error = CancelMsg]
    /\ UNCHANGED <<scenesJson, storyboardRow, sceneMatches, generatedAssets,
                   task, matchPass, overrides, response>>

Cancel(j) ==
    /\ IF j \notin JobIds
       THEN UNCHANGED productionJobs
       ELSE IF productionJobs[j].status \in {"completed", "failed"}
       THEN UNCHANGED productionJobs
       ELSE productionJobs' = [productionJobs EXCEPT
                ![j].status = "failed", ![j].error = CancelMsg]
    /\ UNCHANGED <<scenesJson, storyboardRow, sceneMatches, generatedAssets, task, matchPass,
                   overrides, response>>

\* ------------------------------------------------- POST /:sb/scenes/:scene/override
\* Variant of the update that leaves the review flag as it was.
OverriddenSceneKeepingFlag(scene, assetId) ==
    [scene EXCEPT !.matchedAssetId = assetId, !.matchScore = 10000,
                  !.assetSource = "manual"]

\* The update of the scene found by its id.
OverriddenScene(scene, assetId) ==
    [scene EXCEPT !.matchedAssetId = assetId, !.matchScore = 10000,
                  !.assetSource = "manual", !.needsReview = FALSE]

Override(s, assetId, assetPath) ==
    /\ overrides < MaxOverrides
    /\ overrides' = overrides + 1
    /\ UNCHANGED storyboardRow
    /\ scenesJson' = [scenesJson EXCEPT ![s] = OverriddenScene(@, assetId)]
    /\ sceneMatches' = Append(sceneMatches,
           [sceneId |-> s, assetId |-> assetId, assetPath |-> assetPath,
            source |-> "manual", compositeScore |-> 10000, needsReview |-> FALSE])
    /\ UNCHANGED <<generatedAssets, productionJobs, task, matchPass, response>>

\* ------------------------------------------------- POST /:id/match
MatchBegin ==
    /\ Quiet
    /\ matchPass.made < MaxMatchPasses
    /\ matchPass' = [pc |-> "running", made |-> matchPass.made + 1, k |-> 1,
                     scenes |-> scenesJson, results |-> <<>>]
    /\ UNCHANGED <<scenesJson, storyboardRow, sceneMatches, generatedAssets, productionJobs,
                   task, overrides, response>>

\* Variant whose pass ends at the first call that raises.
MatchSceneAborting(fetched, top) ==
    LET k == matchPass.k
        best == getBestMatch(matchSceneToAssets(k, top))
    IN
    /\ matchPass.pc = "running"
    /\ k <= NScenes
    /\ IF ~fetched
       THEN /\ matchPass' = [matchPass EXCEPT !.k = NScenes + 1]
            /\ UNCHANGED sceneMatches
       ELSE IF best # NoMatch
       THEN /\ matchPass' = [matchPass EXCEPT
                   !.k = k + 1,
                   !.scenes[k] = MatchedScene(@, best),
                   !.results = Append(@, [sceneId |-> k, action |-> "matched"])]
            /\ sceneMatches' = Append(sceneMatches, MatchRow(k, best))
       ELSE /\ matchPass' = [matchPass EXCEPT
                   !.k = k + 1,
                   !.scenes[k].assetSource = "generated",
                   !.results = Append(@, [sceneId |-> k, action |-> "generate"])]
            /\ UNCHANGED sceneMatches
    /\ UNCHANGED <<scenesJson, storyboardRow, generatedAssets, productionJobs,
                   task,
                   overrides, response>>

\* One turn of the loop over the scenes; fetched is false when the
\* embedding or search call raises.
MatchScene(fetched, top) ==
    LET k == matchPass.k
        best == getBestMatch(matchSceneToAssets(k, top))
    IN
    /\ matchPass.pc = "running"
    /\ k <= NScenes
    /\ IF ~fetched
       THEN /\ matchPass' = [matchPass EXCEPT
                   !.k = k + 1,
                   !.results = Append(@, [sceneId |-> k, action |-> "generate"])]
            /\ UNCHANGED sceneMatches
       ELSE IF best # NoMatch
       THEN /\ matchPass' = [matchPass EXCEPT
                   !.k = k + 1,
                   !.scenes[k] = MatchedScene(@, best),
                   !.results = Append(@, [sceneId |-> k, action |-> "matched"])]
            /\ sceneMatches' = Append(sceneMatches, MatchRow(k, best))
       ELSE /\ matchPass' = [matchPass EXCEPT
                   !.k = k + 1,
                   !.scenes[k].assetSource = "generated",
                   !.results = Append(@, [sceneId |-> k, action |-> "generate"])]
            /\ UNCHANGED sceneMatches
    /\ UNCHANGED <<scenesJson, storyboardRow, generatedAssets, productionJobs,
                   task,
                   overrides, response>>

MatchEnd ==
    /\ matchPass.pc = "running"
    /\ matchPass.k > NScenes
    /\ UNCHANGED storyboardRow
    /\ scenesJson' = matchPass.scenes
    /\ matchPass' = [matchPass EXCEPT !.pc = "idle"]
    /\ UNCHANGED <<sceneMatches, generatedAssets, productionJobs, task,
                   overrides, response>>


\* ------------------------------------------------- processProductionJob
\* Variant of the catch block that stores a fixed text for every error.
FailJobUnknown(j, msg) ==
    /\ productionJobs' = [productionJobs EXCEPT
           ![j].status = "failed", ![j].error = "Unknown error"]
    /\ task' = [task EXCEPT ![j].pc = "done", ![j].thrown = msg,
                            ![j].thrownAt = task[j].pc]
    /\ UNCHANGED <<scenesJson, storyboardRow, sceneMatches, generatedAssets>>

\* Variant of the catch block that undoes the storyboard's resolutions.
FailJobRollback(j, msg) ==
    /\ productionJobs' = [productionJobs EXCEPT
           ![j].status = "failed", ![j].error = msg]
    /\ task' = [task EXCEPT ![j].pc = "done", ![j].thrown = msg,
                            ![j].thrownAt = task[j].pc]
    /\ UNCHANGED storyboardRow
    /\ scenesJson' = [s \in Scenes |-> NewScene]
    /\ sceneMatches' = <<>>
    /\ UNCHANGED generatedAssets

\* Variant of the catch block that stores nothing in the job record.
FailJobUnrecorded(j, msg) ==
    /\ task' = [task EXCEPT ![j].pc = "done", ![j].thrown = msg,
                            ![j].thrownAt = task[j].pc]
    /\ UNCHANGED <<productionJobs, scenesJson, storyboardRow, sceneMatches,
                   generatedAssets>>

\* The catch block: the thrown error's message goes to the error column.
FailJob(j, msg) ==
    /\ productionJobs' = [productionJobs EXCEPT
           ![j].status = "failed", ![j].error = msg]
    /\ task' = [task EXCEPT ![j].pc = "done", ![j].thrown = msg,
                            ![j].thrownAt = task[j].pc]
    /\ UNCHANGED <<scenesJson, storyboardRow, sceneMatches, generatedAssets>>

\* scene.matchScore || 1.0
ScoreOrOne(score) == IF score = NoScore \/ score = 0 THEN 10000 ELSE score

\* The scene_matches rows of a scene, oldest first.
MatchRows(s) == SelectSeq(sceneMatches, LAMBDA r : r.sceneId = s)

\* "Check if already matched"
AlreadyMatched(scene, s) ==
    /\ scene.matchedAssetId # NoAsset
    /\ scene.assetSource = "existing"
    /\ Len(MatchRows(s)) > 0

JobBegin(j) ==
    /\ task[j].pc = "start"
    /\ updateJobStatus(j, "matching", LoopProgress(0), Undefined)
    /\ task' = [task EXCEPT ![j].pc = "load"]
    /\ UNCHANGED <<scenesJson, storyboardRow, sceneMatches, generatedAssets, matchPass,
                   overrides, response>>

LoadStoryboard(j) ==
    /\ task[j].pc = "load"
    /\ task' = [task EXCEPT ![j].pc = "scene", ![j].row = scenesJson,
                            ![j].scenes = scenesJson,
                            ![j].i = 1, ![j].resolvedAssets = <<>>]
    /\ UNCHANGED <<scenesJson, storyboardRow, sceneMatches, generatedAssets, productionJobs,
                   matchPass, overrides, response>>

\* Head of the loop over the scenes: reuse the stored match, or go on to
\* generate.
ResolveScene(j) ==
    LET i == task[j].i
        scene == task[j].scenes[i]
    IN
    /\ task[j].pc = "scene"
    /\ i <= NScenes
    /\ IF AlreadyMatched(scene, i)
       THEN /\ task' = [task EXCEPT
                  ![j].pc = "reused",
                  ![j].resolvedAssets = Append(@,
                      [sceneId |-> i, assetId |-> scene.matchedAssetId,
                       localPath |-> MatchRows(i)[1].assetPath,
                       source |-> "existing",
                       confidence |-> ScoreOrOne(scene.matchScore),
                       needsReview |-> scene.needsReview])]
            /\ UNCHANGED productionJobs
       ELSE /\ updateJobStatus(j, "generating", LoopProgress(i - 1), Undefined)
            /\ task' = [task EXCEPT ![j].pc = "submit"]
    /\ UNCHANGED <<scenesJson, storyboardRow, sceneMatches, generatedAssets, matchPass,
                   overrides, response>>

MarkMatching(j) ==
    /\ task[j].pc = "reused"
    /\ updateJobStatus(j, "matching", LoopProgress(task[j].i - 1), Undefined)
    /\ task' = [task EXCEPT ![j].pc = "scene", ![j].i = @ + 1]
    /\ UNCHANGED <<scenesJson, storyboardRow, sceneMatches, generatedAssets, matchPass,
                   overrides, response>>

\* Variant that does not wait for the request it submitted.
SubmitGenerationDetached(j, accepted) ==
    /\ task[j].pc = "submit"
    /\ IF accepted
       THEN /\ task' = [task EXCEPT ![j].pc = "scene", ![j].i = @ + 1,
                                    ![j].submits[task[j].i] = @ + 1]
            /\ UNCHANGED <<productionJobs, scenesJson, storyboardRow, sceneMatches,
                           generatedAssets>>
       ELSE FailJob(j, SubmitErrorMsg)
    /\ UNCHANGED <<matchPass, overrides, response>>

\* generateVideoForScene: submitGeneration
SubmitGeneration(j, accepted) ==
    /\ task[j].pc = "submit"
    /\ IF accepted
       THEN /\ task' = [task EXCEPT ![j].pc = "poll",
                                    ![j].submits[task[j].i] = @ + 1]
            /\ UNCHANGED <<productionJobs, scenesJson, storyboardRow, sceneMatches,
                           generatedAssets>>
       ELSE FailJob(j, SubmitErrorMsg)
    /\ UNCHANGED <<matchPass, overrides, response>>

\* generateVideoForScene: how pollUntilComplete ends
PollOutcomes == {"completed", GenerationFailedMsg, TimeoutMsg}

\* Variant that submits the request again after a failure or a timeout.
PollUntilCompleteRetry(j, outcome) ==
    /\ task[j].pc = "poll"
    /\ task' = [task EXCEPT
           ![j].pc = IF outcome = "completed" THEN "download" ELSE "submit"]
    /\ UNCHANGED <<productionJobs, scenesJson, storyboardRow, sceneMatches, generatedAssets,
                   matchPass, overrides, response>>

PollUntilComplete(j, outcome) ==
    /\ task[j].pc = "poll"
    /\ IF outcome = "completed"
       THEN /\ task' = [task EXCEPT ![j].pc = "download"]
            /\ UNCHANGED <<productionJobs, scenesJson, storyboardRow, sceneMatches,
                           generatedAssets>>
       ELSE FailJob(j, outcome)
    /\ UNCHANGED <<matchPass, overrides, response>>

\* generateVideoForScene: downloadVideo
DownloadVideo(j, fetched) ==
    /\ task[j].pc = "download"
    /\ IF fetched
       THEN /\ task' = [task EXCEPT ![j].pc = "record"]
            /\ UNCHANGED <<productionJobs, scenesJson, storyboardRow, sceneMatches,
                           generatedAssets>>
       ELSE FailJob(j, DownloadErrorMsg)
    /\ UNCHANGED <<matchPass, overrides, response>>

\* The generated_assets row, the scene's fields and the resolved asset.
\* Variant that keeps the generated asset out of the resolved assets.
RecordGeneratedUnresolved(j) ==
    LET i == task[j].i IN
    /\ task[j].pc = "record"
    /\ generatedAssets' = Append(generatedAssets,
           [assetId |-> GenAsset(j, i), jobId |-> j, sceneId |-> i,
            filepath |-> GenPath(j, i), catalogued |-> FALSE])
    /\ task' = [task EXCEPT
           ![j].pc = "catalog",
           ![j].scenes[i].matchedAssetId = GenAsset(j, i),
           ![j].scenes[i].matchScore = 10000,
           ![j].scenes[i].assetSource = "generated"]
    /\ UNCHANGED <<scenesJson, storyboardRow, sceneMatches, productionJobs,
                   matchPass, overrides, response>>

RecordGenerated(j) ==
    LET i == task[j].i IN
    /\ task[j].pc = "record"
    /\ generatedAssets' = Append(generatedAssets,
           [assetId |-> GenAsset(j, i), jobId |-> j, sceneId |-> i,
            filepath |-> GenPath(j, i), catalogued |-> FALSE])
    /\ task' = [task EXCEPT
           ![j].pc = "catalog",
           ![j].scenes[i].matchedAssetId = GenAsset(j, i),
           ![j].scenes[i].matchScore = 10000,
           ![j].scenes[i].assetSource = "generated",
           ![j].resolvedAssets = Append(@,
               [sceneId |-> i, assetId |-> GenAsset(j, i),
                localPath |-> GenPath(j, i), source |-> "generated",
                confidence |-> 10000, needsReview |-> FALSE])]
    /\ UNCHANGED <<scenesJson, storyboardRow, sceneMatches, productionJobs, matchPass,
                   overrides, response>>

\* Variant whose catalog block lets the error out to the task.
CatalogPropagating(j, catalogued) ==
    /\ task[j].pc = "catalog"
    /\ IF catalogued
       THEN /\ task' = [task EXCEPT ![j].pc = "scene", ![j].i = @ + 1]
            /\ UNCHANGED <<productionJobs, scenesJson, storyboardRow, sceneMatches,
                           generatedAssets>>
       ELSE FailJob(j, CatalogErrorMsg)
    /\ UNCHANGED <<matchPass, overrides, response>>

\* catalogGeneratedAsset and the update of the catalogued flag inside their
\* try block; the catch block logs the asset whose cataloging failed.
Catalog(j, catalogued) ==
    LET i == task[j].i IN
    /\ task[j].pc = "catalog"
    /\ generatedAssets' =
           IF catalogued
           THEN [n \in DOMAIN generatedAssets |->
                    IF generatedAssets[n].assetId = GenAsset(j, i)
                    THEN [generatedAssets[n] EXCEPT !.catalogued = TRUE]
                    ELSE generatedAssets[n]]
           ELSE generatedAssets
    /\ task' = [task EXCEPT
           ![j].pc = "scene", ![j].i = @ + 1,
           ![j].catalogErrors =
               IF catalogued THEN @ ELSE @ \cup {GenAsset(j, i)}]
    /\ UNCHANGED <<scenesJson, storyboardRow, sceneMatches, productionJobs, matchPass,
                   overrides, response>>

\* Variant that stores the scenes in the reverse of the loaded order.
StoreScenesReversed(j) ==
    /\ task[j].pc = "scene"
    /\ task[j].i > NScenes
    /\ UNCHANGED storyboardRow
    /\ scenesJson' = [s \in Scenes |-> task[j].scenes[NScenes + 1 - s]]
    /\ task' = [task EXCEPT ![j].pc = "assemble"]
    /\ UNCHANGED <<sceneMatches, generatedAssets, productionJobs, matchPass,
                   overrides, response>>

\* "Update storyboard with final scenes"
StoreScenes(j) ==
    /\ task[j].pc = "scene"
    /\ task[j].i > NScenes
    /\ UNCHANGED storyboardRow
    /\ scenesJson' = task[j].scenes
    /\ task' = [task EXCEPT ![j].pc = "assemble"]
    /\ UNCHANGED <<sceneMatches, generatedAssets, productionJobs, matchPass,
                   overrides, response>>

BeginAssembly(j) ==
    /\ task[j].pc = "assemble"
    /\ updateJobStatus(j, "assembling", AssemblingProgress, Undefined)
    /\ task' = [task EXCEPT ![j].pc = "render"]
    /\ UNCHANGED <<scenesJson, storyboardRow, sceneMatches, generatedAssets, matchPass,
                   overrides, response>>

\* Variant that goes on to complete the job whatever the renderer did.
RenderIgnoringFailure(j, rendered) ==
    /\ task[j].pc = "render"
    /\ task' = [task EXCEPT
           ![j].pc = "complete",
           ![j].renderer = IF rendered THEN "ok" ELSE "failed"]
    /\ UNCHANGED <<productionJobs, scenesJson, storyboardRow, sceneMatches, generatedAssets,
                   matchPass, overrides, response>>

\* assembleStoryboard: the renderer call
Render(j, rendered) ==
    /\ task[j].pc = "render"
    /\ IF rendered
       THEN /\ task' = [task EXCEPT ![j].pc = "complete",
                                    ![j].renderer = "ok"]
            /\ UNCHANGED <<productionJobs, scenesJson, storyboardRow, sceneMatches,
                           generatedAssets>>
       ELSE FailJob(j, RenderErrorMsg)
    /\ UNCHANGED <<matchPass, overrides, response>>

Complete(j) ==
    /\ task[j].pc = "complete"
    /\ updateJobStatus(j, "completed", CompletedProgress, OutputPath(j))
    /\ task' = [task EXCEPT ![j].pc = "done"]
    /\ UNCHANGED <<scenesJson, storyboardRow, sceneMatches, generatedAssets, matchPass,
                   overrides, response>>

\* ------------------------------------------------- pollUntilComplete
\* The poll loop of one generation request on its own, with the clock it
\* reads. Times are in milliseconds.
timeoutMs == 600000
pollIntervalMs == 5000

\* Date.now() when the loop is entered.
StartTimes == {0, 4000}

\* The time a status request takes, and how late the timer of the wait
\* fires.
Latencies == {0, 2000, 7000}
TimerLateness == {0, 1000}

\* What a status request comes to: a status of LTX2StatusResponse (a
\* completed one with or without its output_url), or the request's error.
StatusAnswers ==
    {"pending", "processing", "completed", "completed without url",
     "failed", "request error"}

StatusErrorMsg == "[GET] /api/v1/status: 500 Internal Server Error"

NoCheck == -1

\* while (Date.now() - startTime < timeoutMs): the status request is issued,
\* or the loop is left and the timeout error thrown.
PollLoopHead ==
    /\ poll.pc = "head"
    /\ IF poll.now - poll.startTime < timeoutMs
       THEN poll' = [poll EXCEPT !.pc = "check",
                                 !.previousCheckAt = poll.checkAt,
                                 !.checkAt = poll.now]
       ELSE poll' = [poll EXCEPT !.pc = "done", !.outcome = TimeoutMsg]

\* await checkStatus(jobId) and the two tests on its answer.
checkStatus(answer, latency) ==
    /\ poll.pc = "check"
    /\ poll' = [poll EXCEPT
           !.now = @ + latency,
           !.pc = IF answer \in {"completed", "failed", "request error"}
                  THEN "done" ELSE "wait",
           !.outcome = CASE answer = "completed" -> "completed"
                         [] answer = "failed" -> GenerationFailedMsg
                         [] answer = "request error" -> StatusErrorMsg
                         [] OTHER -> @]

\* await new Promise(resolve => setTimeout(resolve, pollIntervalMs))
PollWait(late) ==
    /\ poll.pc = "wait"
    /\ poll' = [poll EXCEPT !.now = @ + pollIntervalMs + late, !.pc = "head"]

serviceVars == <<scenesJson, storyboardRow, sceneMatches, generatedAssets, productionJobs,
                 task, matchPass, overrides, response>>

\* The service with no request made.
ServiceAtRest ==
    /\ storyboardRow = NewStoryboardRow
    /\ scenesJson = [s \in Scenes |-> NewScene]
    /\ sceneMatches = <<>>
    /\ generatedAssets = <<>>
    /\ productionJobs = <<>>
    /\ task = <<>>
    /\ matchPass = [pc |-> "idle", made |-> 0, k |-> 1,
                    scenes |-> [s \in Scenes |-> NewScene], results |-> <<>>]
    /\ overrides = 0
    /\ response = [code |-> 0, id |-> "none", health |-> "none",
                   jobsBefore |-> 0]

InitPoll ==
    /\ ServiceAtRest
    /\ \E t \in StartTimes :
           poll = [pc |-> "head", startTime |-> t, now |-> t,
                   checkAt |-> NoCheck, previousCheckAt |-> NoCheck,
                   outcome |-> "none"]
    /\ search = NoSearch
    /\ styled = NoStyled
    /\ assembly = NoAssembly

NextPoll ==
    \/ PollLoopHead /\ UNCHANGED <<serviceVars, search, styled, assembly>>
    \/ \E answer \in StatusAnswers, latency \in Latencies :
           checkStatus(answer, latency) /\ UNCHANGED <<serviceVars, search, styled, assembly>>
    \/ \E late \in TimerLateness :
           PollWait(late) /\ UNCHANGED <<serviceVars, search, styled, assembly>>

SpecPoll == InitPoll /\ [][NextPoll]_vars

\* ------------------------------------------------- matchSceneToAssets
\* The scoring of the candidates the search returned for one scene, on its
\* own.  An asset's vector is given by its cosine with the scene's
\* embedding, in a one-element sequence; the words of a text are given as a
\* set or a sequence of words.
semanticMinimum == 72
semanticSimilarity == 50
styleMatch == 20
useCaseMatch == 15
qualityScore == 10
durationFit == 5

\* The semantic score of a candidate returned without its vector.
defaultSemantic == 70

NoVector == <<>>
NoUseCase == <<"null">>
targetPixels == 1920 * 1080

\* An optional text is absent (NoText) or holds one string.  A string is
\* the sequence of its pieces: words, and runs of whitespace written Space.
NoText == <<>>
Space == " "
Text(pieces) == <<pieces>>

\* String.prototype.toLowerCase on the words of the model.
LowerCased == ("City" :> "city") @@ ("Warm" :> "warm")
toLowerCase(word) ==
    IF word \in DOMAIN LowerCased THEN LowerCased[word] ELSE word

\* String.prototype.split(/\s+/): the fields between the runs of
\* whitespace.  The empty string has the one field "", and a run of whitespace
\* at either end of the string has the field "" on its outer side.
RECURSIVE split(_)
split(pieces) ==
    IF pieces = <<>> THEN <<"">>
    ELSE IF Head(pieces) = Space THEN <<"">> \o split(Tail(pieces))
    ELSE IF Len(pieces) = 1 THEN <<Head(pieces)>>
    ELSE <<Head(pieces)>> \o split(Tail(Tail(pieces)))

\* text?.toLowerCase().split(/\s+/) || []
LowerCaseFields(text) ==
    IF text = NoText THEN {}
    ELSE LET fields == split([n \in DOMAIN text[1] |-> toLowerCase(text[1][n])])
         IN {fields[n] : n \in DOMAIN fields}

\* The scene the candidates are scored for.
SearchScene ==
    [description |-> {"aerial", "view"}, visualKeywords |-> {"city", "night"},
     styleHints |-> NoText, duration |-> 5]

WordLength ==
    ("city" :> 4) @@ ("night" :> 5) @@ ("sky" :> 3) @@ ("drone" :> 5)

\* What the search can return for one field of a candidate.  The cosine
\* of a vector parallel to the embedding is 1, or the next double above 1
\* when the division of cosineSimilarity rounds up; this least value above
\* 1 is written 101.
Vectors == {NoVector, <<71>>, <<72>>, <<100>>, <<101>>}
TagSets == {{}, {"city", "night"}}
UseCases == {NoUseCase, <<"city", "night">>, <<"sky", "drone">>}
Dimensions == {<<0, 0>>, <<960, 1080>>, <<3840, 2160>>}
Durations == {0, 2, 5}

Profiles ==
    [vector : Vectors, tags : TagSets, use_case : UseCases,
     dimensions : Dimensions, duration : Durations]

\* The candidate at position k of the search result.
Asset(k, profile) ==
    [id |-> k, filepath |-> <<"library", k>>, media_type |-> "video",
     vector |-> profile.vector, tags |-> profile.tags, style |-> NoText,
     use_case |-> profile.use_case, width |-> profile.dimensions[1],
     height |-> profile.dimensions[2], duration |-> profile.duration]

Max(a, b) == IF a >= b THEN a ELSE b
Min(a, b) == IF a <= b THEN a ELSE b

\* A candidate without tags is held as one with no tag: the code reads both
\* as the empty list.
calculateStyleScore(scene, asset) ==
    LET sceneTags == {toLowerCase(k) : k \in scene.visualKeywords}
                         \cup LowerCaseFields(scene.styleHints)
        assetTags == {toLowerCase(tg) : tg \in asset.tags}
                         \cup LowerCaseFields(asset.style)
    IN IF sceneTags = {} \/ assetTags = {} THEN 50
       ELSE (100 * Cardinality(sceneTags \cap assetTags))
                \div Max(Cardinality(sceneTags), 1)

calculateUseCaseScore(scene, asset) ==
    IF asset.use_case = NoUseCase THEN 50
    ELSE LET sceneText == scene.description \cup scene.visualKeywords
             useCaseWords == asset.use_case
             matches == Cardinality({n \in DOMAIN useCaseWords :
                            /\ WordLength[useCaseWords[n]] > 3
                            /\ useCaseWords[n] \in sceneText})
         IN Min((100 * matches) \div Max(Len(useCaseWords), 1), 100)

calculateQualityScore(asset) ==
    LET assetPixels == asset.width * asset.height
    IN IF assetPixels >= targetPixels THEN 100
       ELSE IF assetPixels = 0 THEN 30
       ELSE (100 * assetPixels) \div targetPixels

calculateDurationScore(scene, asset) ==
    IF asset.duration = 0 \/ asset.media_type # "video" THEN 50
    ELSE IF asset.duration >= scene.duration THEN 100
    ELSE Max((100 * asset.duration) \div scene.duration, 30)

calculateCompositeScore(scores) ==
    scores.semantic * semanticSimilarity
    + scores.style * styleMatch
    + scores.useCase * useCaseMatch
    + scores.quality * qualityScore
    + scores.duration * durationFit

SemanticScore(asset) ==
    IF asset.vector # NoVector THEN asset.vector[1] ELSE defaultSemantic

\* The AssetMatch pushed for a candidate that passed the semantic test.
ScoredMatch(scene, asset) ==
    LET scores == [semantic |-> SemanticScore(asset),
                   style |-> calculateStyleScore(scene, asset),
                   useCase |-> calculateUseCaseScore(scene, asset),
                   quality |-> calculateQualityScore(asset),
                   duration |-> calculateDurationScore(scene, asset)]
        compositeScore == calculateCompositeScore(scores)
    IN [assetId |-> asset.id, filepath |-> asset.filepath,
        semanticScore |-> scores.semantic, styleScore |-> scores.style,
        useCaseScore |-> scores.useCase, qualityScore |-> scores.quality,
        durationScore |-> scores.duration, compositeScore |-> compositeScore,
        needsReview |-> NeedsReview(compositeScore)]

\* Variant of the loop that scores every candidate.
RECURSIVE ScoreEveryCandidate(_, _)
ScoreEveryCandidate(scene, candidates) ==
    IF candidates = <<>> THEN <<>>
    ELSE <<ScoredMatch(scene, Head(candidates))>>
             \o ScoreEveryCandidate(scene, Tail(candidates))

\* The loop over the candidates: the matches in the order of the candidates.
RECURSIVE ScoreCandidates(_, _)
ScoreCandidates(scene, candidates) ==
    IF candidates = <<>> THEN <<>>
    ELSE IF SemanticScore(Head(candidates)) < semanticMinimum
    THEN ScoreCandidates(scene, Tail(candidates))
    ELSE <<ScoredMatch(scene, Head(candidates))>>
             \o ScoreCandidates(scene, Tail(candidates))

\* Variant of the sort that puts a match before the matches of the same
\* composite.
RECURSIVE SortTiesLastFirst(_)
SortTiesLastFirst(matches) ==
    IF matches = <<>> THEN <<>>
    ELSE LET m == matches[Len(matches)]
             sorted == SortTiesLastFirst(SubSeq(matches, 1, Len(matches) - 1))
             before == SelectSeq(sorted,
                           LAMBDA a : a.compositeScore > m.compositeScore)
             after == SelectSeq(sorted,
                           LAMBDA a : a.compositeScore <= m.compositeScore)
         IN before \o <<m>> \o after

\* matches.sort((a, b) => b.compositeScore - a.compositeScore): the sort of
\* the engine is stable, a match comes after the earlier matches whose
\* composite is at least its own.
RECURSIVE SortByComposite(_)
SortByComposite(matches) ==
    IF matches = <<>> THEN <<>>
    ELSE LET m == matches[Len(matches)]
             sorted == SortByComposite(SubSeq(matches, 1, Len(matches) - 1))
             before == SelectSeq(sorted,
                           LAMBDA a : a.compositeScore >= m.compositeScore)
             after == SelectSeq(sorted,
                           LAMBDA a : a.compositeScore < m.compositeScore)
         IN before \o <<m>> \o after

shouldGenerate(matches) ==
    IF Len(matches) = 0 THEN TRUE
    ELSE matches[1].compositeScore < compositeMinimum

\* matchSceneToAssets on the candidates the search returned, then the two
\* decisions on its result.
ScoreAndDecide ==
    /\ search.pc = "searched"
    /\ LET matches ==
               SortByComposite(ScoreCandidates(SearchScene, search.candidates))
       IN search' = [search EXCEPT
              !.pc = "returned", !.matches = matches,
              !.best = getBestMatch(matches),
              !.generate = shouldGenerate(matches)]

\* The search result made of the candidates of the chosen profiles.
Candidates(choice) == [k \in DOMAIN choice |-> Asset(k, choice[k])]

InitSearch ==
    /\ ServiceAtRest
    /\ poll = NoPoll
    /\ styled = NoStyled
    /\ assembly = NoAssembly
    /\ \E n \in 0..MaxCandidates : \E choice \in [1..n -> Profiles] :
           search = [pc |-> "searched", candidates |-> Candidates(choice),
                     matches |-> <<>>, best |-> NoMatch, generate |-> FALSE]

NextSearch == ScoreAndDecide /\ UNCHANGED <<serviceVars, poll, styled, assembly>>

SpecSearch == InitSearch /\ [][NextSearch]_vars

\* Longer search results, of candidates that differ in their composite or
\* only in their position: composites 0.78, 0.78, 0.90 and 1.0, and a
\* candidate below the semantic minimum.
RankedProfiles ==
    {[vector |-> <<72>>, tags |-> {"city", "night"},
      use_case |-> <<"city", "night">>, dimensions |-> <<960, 1080>>,
      duration |-> 2],
     [vector |-> <<100>>, tags |-> {"city", "night"},
      use_case |-> <<"city", "night">>, dimensions |-> <<0, 0>>,
      duration |-> 2],
     [vector |-> <<100>>, tags |-> {"city", "night"},
      use_case |-> <<"city", "night">>, dimensions |-> <<3840, 2160>>,
      duration |-> 5],
     [vector |-> <<71>>, tags |-> {"city", "night"},
      use_case |-> <<"city", "night">>, dimensions |-> <<3840, 2160>>,
      duration |-> 5]}

InitRanking ==
    /\ ServiceAtRest
    /\ poll = NoPoll
    /\ styled = NoStyled
    /\ assembly = NoAssembly
    /\ \E n \in 0..MaxRanked : \E choice \in [1..n -> RankedProfiles] :
           search = [pc |-> "searched", candidates |-> Candidates(choice),
                     matches |-> <<>>, best |-> NoMatch, generate |-> FALSE]

SpecRanking == InitRanking /\ [][NextSearch]_vars

\* ------------------------------------------------- the system
ComponentsIdle == UNCHANGED componentVars

\* The service with well-formed production requests.
Next ==
    \/ Produce(StoryboardId, "healthy") /\ ComponentsIdle
    \/ \E j \in JobIds : Cancel(j) /\ ComponentsIdle
    \/ \E s \in Scenes : Override(s, ManualAsset, ManualPath) /\ ComponentsIdle
    \/ MatchBegin /\ ComponentsIdle
    \/ \E top \in TopComposites : MatchScene(TRUE, top) /\ ComponentsIdle
    \/ MatchScene(FALSE, 0) /\ ComponentsIdle
    \/ MatchEnd /\ ComponentsIdle
    \/ \E j \in JobIds : JobBegin(j) /\ ComponentsIdle
    \/ \E j \in JobIds : LoadStoryboard(j) /\ ComponentsIdle
    \/ \E j \in JobIds : ResolveScene(j) /\ ComponentsIdle
    \/ \E j \in JobIds : MarkMatching(j) /\ ComponentsIdle
    \/ \E j \in JobIds, accepted \in BOOLEAN : SubmitGeneration(j, accepted) /\ ComponentsIdle
    \/ \E j \in JobIds, outcome \in PollOutcomes : PollUntilComplete(j, outcome) /\ ComponentsIdle
    \/ \E j \in JobIds, fetched \in BOOLEAN : DownloadVideo(j, fetched) /\ ComponentsIdle
    \/ \E j \in JobIds : RecordGenerated(j) /\ ComponentsIdle
    \/ \E j \in JobIds, catalogued \in BOOLEAN : Catalog(j, catalogued) /\ ComponentsIdle
    \/ \E j \in JobIds : StoreScenes(j) /\ ComponentsIdle
    \/ \E j \in JobIds : BeginAssembly(j) /\ ComponentsIdle
    \/ \E j \in JobIds, rendered \in BOOLEAN : Render(j, rendered) /\ ComponentsIdle
    \/ \E j \in JobIds : Complete(j) /\ ComponentsIdle

Spec == Init /\ [][Next]_vars

\* The production and cancel requests with every input, and the jobs they
\* start.
NextRequests ==
    \/ \E id \in StoryboardIds, answer \in HealthAnswers : Produce(id, answer) /\ ComponentsIdle
    \/ \E j \in 1..MaxJobs : Cancel(j) /\ ComponentsIdle
    \/ \E j \in JobIds : JobBegin(j) /\ ComponentsIdle
    \/ \E j \in JobIds : LoadStoryboard(j) /\ ComponentsIdle
    \/ \E j \in JobIds : ResolveScene(j) /\ ComponentsIdle
    \/ \E j \in JobIds : MarkMatching(j) /\ ComponentsIdle
    \/ \E j \in JobIds, accepted \in BOOLEAN : SubmitGeneration(j, accepted) /\ ComponentsIdle
    \/ \E j \in JobIds, outcome \in PollOutcomes : PollUntilComplete(j, outcome) /\ ComponentsIdle
    \/ \E j \in JobIds, fetched \in BOOLEAN : DownloadVideo(j, fetched) /\ ComponentsIdle
    \/ \E j \in JobIds : RecordGenerated(j) /\ ComponentsIdle
    \/ \E j \in JobIds, catalogued \in BOOLEAN : Catalog(j, catalogued) /\ ComponentsIdle
    \/ \E j \in JobIds : StoreScenes(j) /\ ComponentsIdle
    \/ \E j \in JobIds : BeginAssembly(j) /\ ComponentsIdle
    \/ \E j \in JobIds, rendered \in BOOLEAN : Render(j, rendered) /\ ComponentsIdle
    \/ \E j \in JobIds : Complete(j) /\ ComponentsIdle

\* The storyboard as a completed matching pass leaves it, the search having
\* come to tops[s] for scene s.
RequestTops == {0, 9500}

BestOf(s, tops) == getBestMatch(matchSceneToAssets(s, tops[s]))

InitRequests ==
    \E tops \in [Scenes -> RequestTops] :
        /\ storyboardRow = NewStoryboardRow
        /\ scenesJson = [s \in Scenes |->
               IF BestOf(s, tops) # NoMatch
               THEN MatchedScene(NewScene, BestOf(s, tops))
               ELSE [NewScene EXCEPT !.assetSource = "generated"]]
        /\ sceneMatches = SelectSeq([s \in Scenes |-> MatchRow(s,
                   IF BestOf(s, tops) # NoMatch THEN BestOf(s, tops)
                   ELSE [assetId |-> NoAsset, filepath |-> NoAsset,
                         compositeScore |-> 0, needsReview |-> FALSE])],
               LAMBDA r : r.assetId # NoAsset)
        /\ generatedAssets = <<>>
        /\ productionJobs = <<>>
        /\ task = <<>>
        /\ matchPass = [pc |-> "idle", made |-> 1, k |-> NScenes + 1,
                        scenes |-> scenesJson, results |-> <<>>]
        /\ overrides = 0
        /\ response = [code |-> 0, id |-> "none", health |-> "none",
                       jobsBefore |-> 0]
        /\ poll = NoPoll
        /\ search = NoSearch
        /\ styled = NoStyled
        /\ assembly = NoAssembly

SpecRequests == InitRequests /\ [][NextRequests]_vars

\* The requests and the jobs they start, and the poll loop followed on its
\* own, each background job going on whenever the call it awaits has
\* returned, and the poll loop whenever its request or its timer has.
processProductionJob(j) ==
    /\ j \in JobIds
    /\ ComponentsIdle
    /\ \/ JobBegin(j)
       \/ LoadStoryboard(j)
       \/ ResolveScene(j)
       \/ MarkMatching(j)
       \/ \E accepted \in BOOLEAN : SubmitGeneration(j, accepted)
       \/ \E outcome \in PollOutcomes : PollUntilComplete(j, outcome)
       \/ \E fetched \in BOOLEAN : DownloadVideo(j, fetched)
       \/ RecordGenerated(j)
       \/ \E catalogued \in BOOLEAN : Catalog(j, catalogued)
       \/ StoreScenes(j)
       \/ BeginAssembly(j)
       \/ \E rendered \in BOOLEAN : Render(j, rendered)
       \/ Complete(j)

InitRunning == InitRequests \/ InitPoll

NextRunning ==
    \/ \E id \in StoryboardIds, answer \in HealthAnswers :
           poll = NoPoll /\ Produce(id, answer) /\ ComponentsIdle
    \/ \E j \in 1..MaxJobs : poll = NoPoll /\ Cancel(j) /\ ComponentsIdle
    \/ \E j \in 1..MaxJobs : processProductionJob(j)
    \/ NextPoll

SpecRunning ==
    /\ InitRunning
    /\ [][NextRunning]_vars
    /\ \A j \in 1..MaxJobs : WF_vars(processProductionJob(j))
    /\ WF_vars(NextPoll)

\* ------------------------------------------------- properties
Terminal == {"completed", "failed"}

\* Position of a status on pending -> matching -> generating -> assembling
\* -> completed, failed being reachable from every non-terminal status.
Rank(status) ==
    CASE status = "pending" -> 0
      [] status = "matching" -> 1
      [] status = "generating" -> 2
      [] status = "assembling" -> 3
      [] status = "completed" -> 4
      [] status = "failed" -> 5

\* The task of job j waits for, or has the answer of, the generation
\* request of its current scene.
RequestOut(j) == task[j].pc \in {"poll", "download", "record"}

CurrentScene(j) == task[j].scenes[task[j].i]

\* The task of job j ended on an error raised while generating a scene.
GenerationFailed(j) ==
    /\ task[j].pc = "done"
    /\ task[j].thrownAt \in {"submit", "poll", "download"}

\* C1: once a production job's stored status is completed or failed, no
\* later step of the processor or of a cancel request changes it.
C1_TerminalStatusIsFinal ==
    [][\A j \in JobIds :
          productionJobs[j].status \in Terminal
              => productionJobs'[j].status = productionJobs[j].status]_vars

\* C2: the stored status of a job that is not terminal only moves forward
\* along pending, matching, generating, assembling, completed (or to
\* failed); it never moves backward.
C2_StatusMovesForward ==
    [][\A j \in JobIds :
          productionJobs[j].status \notin Terminal
              => Rank(productionJobs'[j].status) >= Rank(productionJobs[j].status)]_vars

\* C3: a production of a storyboard whose scenes are all resolved with
\* source existing or manual submits no generation request, and each
\* resolved asset is the scene's prior resolution.
C3_ResolvedStoryboardGeneratesNothing ==
    \A j \in JobIds :
        (\A s \in Scenes : task[j].scenes[s].assetSource \in {"existing", "manual"})
            => /\ \A s \in Scenes : task[j].submits[s] = 0
               /\ \A s \in 1..Len(task[j].resolvedAssets) :
                     /\ task[j].resolvedAssets[s].assetId = task[j].scenes[s].matchedAssetId
                     /\ task[j].resolvedAssets[s].source = task[j].scenes[s].assetSource

\* C4: a scene whose clip an earlier production job generated and recorded
\* gets no generation request in a later job on the storyboard.
C4_GeneratedSceneNotRegenerated ==
    \A j \in JobIds :
        RequestOut(j)
            => ~ \E n \in DOMAIN generatedAssets :
                   /\ generatedAssets[n].jobId # j
                   /\ generatedAssets[n].assetId = CurrentScene(j).matchedAssetId
                   /\ CurrentScene(j).assetSource = "generated"

\* C5: in a production job a scene with no prior resolution is put through
\* candidate fetch and scoring before any generation request is submitted
\* for it.
C5_UnresolvedSceneScoredFirst ==
    \A j \in JobIds :
        (RequestOut(j) /\ CurrentScene(j) = NewScene) => task[j].searches > 0

\* Scene s of job j required generation and its request was submitted.
GenerationRequested(j, s) ==
    \/ /\ s = task[j].i
       /\ \/ task[j].pc \in {"poll", "download", "record", "catalog"}
          \/ task[j].pc = "done" /\ task[j].thrownAt \in {"poll", "download"}
    \/ /\ s <= Len(task[j].resolvedAssets)
       /\ task[j].resolvedAssets[s].source = "generated"

\* C6: within one production job each scene that requires generation has
\* exactly one generation request submitted, also after a failed or timed
\* out generation, a reused scene has none, and the task makes no search
\* query.
C6_OneGenerationRequestPerScene ==
    \A j \in JobIds : \A s \in Scenes :
        /\ task[j].submits[s] <= 1
        /\ task[j].searches = 0
        /\ GenerationRequested(j, s) => task[j].submits[s] = 1
        /\ (s <= Len(task[j].resolvedAssets)
              /\ task[j].resolvedAssets[s].source = "existing")
               => task[j].submits[s] = 0

C6_Witness ==
    \E j \in JobIds :
        /\ task[j].pc = "done"
        /\ task[j].thrownAt = "poll"
        /\ task[j].thrown = TimeoutMsg
        /\ task[j].submits[task[j].i] = 1

\* C7: when generation of a scene fails the job stops there: no later
\* scene is resolved, assembly is not started, the stored status is failed
\* and the error column holds the message of the error that was raised.
C7_GenerationFailureFailsJob ==
    \A j \in JobIds :
        GenerationFailed(j)
            => /\ productionJobs[j].status = "failed"
               /\ productionJobs[j].error = task[j].thrown
               /\ task[j].thrown \in {SubmitErrorMsg, GenerationFailedMsg,
                                      TimeoutMsg, DownloadErrorMsg}
               /\ Len(task[j].resolvedAssets) = task[j].i - 1
               /\ productionJobs[j].progress = LoopProgress(task[j].i - 1)
               /\ task[j].renderer = "none"
               /\ productionJobs[j].outputPath = NoAsset

C7_Witness ==
    \E j \in JobIds :
        /\ GenerationFailed(j)
        /\ task[j].i = 2
        /\ productionJobs[j].error = GenerationFailedMsg

\* C8: the step in which a job fails while generating a scene changes
\* neither the stored storyboard's scene resolutions nor the match-history
\* rows nor the generated-asset rows.
C8_FailureKeepsStoredResolutions ==
    [][\A j \in JobIds :
          (task[j].pc \in {"submit", "poll", "download"} /\ task'[j].pc = "done")
              => /\ scenesJson' = scenesJson
                 /\ sceneMatches' = sceneMatches
                 /\ generatedAssets' = generatedAssets]_vars

C8_Witness ==
    \E j \in JobIds :
        /\ GenerationFailed(j)
        /\ task[j].i = 2
        /\ task[j].scenes[1].assetSource = "existing"
        /\ scenesJson[1].assetSource = "existing"
        /\ Len(MatchRows(1)) > 0

\* C9: a job is completed only after the renderer succeeded, and then has
\* progress 1.0 and its output path; a job whose renderer call failed is
\* failed with the renderer's message and no output path.
C9_CompletedOnlyAfterRender ==
    \A j \in JobIds :
        /\ productionJobs[j].status = "completed"
              => /\ task[j].renderer = "ok"
                 /\ productionJobs[j].progress = CompletedProgress
                 /\ productionJobs[j].outputPath = OutputPath(j)
        /\ (task[j].pc = "done" /\ task[j].thrownAt = "render")
              => /\ productionJobs[j].status = "failed"
                 /\ productionJobs[j].error = RenderErrorMsg
                 /\ productionJobs[j].outputPath = NoAsset

C9_Witness ==
    \E j, k \in JobIds :
        /\ productionJobs[j].status = "completed"
        /\ task[k].pc = "done"
        /\ task[k].thrownAt = "render"

\* C10: a production request made while the generation collaborator's
\* health check fails, or for a storyboard that does not exist, creates no
\* job row and starts no task, and is answered 503, respectively 404.
C10_RefusedRequestCreatesNoJob ==
    (response.code # 0
        /\ (response.id # StoryboardId \/ response.health # "healthy"))
        => /\ response.code = IF response.id # StoryboardId THEN 404 ELSE 503
           /\ Len(productionJobs) = response.jobsBefore
           /\ Len(task) = response.jobsBefore

C10_Witness ==
    /\ response.code = 503
    /\ response.health = "degraded"
    /\ response.jobsBefore = 1
    /\ Len(productionJobs) = 1

\* The time the poll loop has run for, by its own clock.
PollElapsed == poll.now - poll.startTime

\* C11: the poll loop ends with exactly one of three outcomes, whichever
\* comes first: completed, the failure error, or the timeout error once the
\* elapsed time has reached the timeout; two status checks are at least the
\* interval apart and none is issued once the timeout has elapsed.
C11_PollEndsOnFirstOutcome ==
    poll # NoPoll =>
        /\ poll.pc = "done" =>
               poll.outcome \in {"completed", GenerationFailedMsg, TimeoutMsg}
        /\ poll.outcome \in {"completed", GenerationFailedMsg} =>
               PollElapsed < timeoutMs
        /\ poll.outcome = TimeoutMsg => PollElapsed >= timeoutMs
        /\ poll.checkAt # NoCheck => poll.checkAt - poll.startTime < timeoutMs
        /\ poll.previousCheckAt # NoCheck =>
               poll.checkAt - poll.previousCheckAt >= pollIntervalMs

\* Job j was marked failed by a cancel request while its task is running.
Cancelled(j) ==
    /\ productionJobs[j].status = "failed"
    /\ productionJobs[j].error = CancelMsg
    /\ task[j].pc # "done"

\* C12: the processor of a job that a cancel request marked failed sees the
\* mark at its next status check: the check ends the task, which submits no
\* further generation request, starts no assembly and writes no status.
C12_CancelObservedAtNextCheck ==
    [][\A j \in JobIds :
          (Cancelled(j) /\ task[j].pc = "poll" /\ task'[j] # task[j])
          => /\ task'[j].pc = "done"
             /\ task'[j].submits = task[j].submits
             /\ productionJobs'[j] = productionJobs[j]]_vars

\* C13: a failure while cataloging a generated asset fails neither the
\* scene nor the job: the scene stays resolved as generated, the task goes
\* on with the next scene, and the catalogued flag of the asset's record is
\* true only if its cataloging succeeded.
C13_CatalogFailureIsAbsorbed ==
    [][\A j \in JobIds :
          (task[j].pc = "catalog" /\ task'[j] # task[j])
          => LET i == task[j].i IN
             /\ task'[j].pc = "scene"
             /\ task'[j].i = i + 1
             /\ productionJobs'[j] = productionJobs[j]
             /\ task'[j].scenes[i].assetSource = "generated"
             /\ task'[j].resolvedAssets = task[j].resolvedAssets
             /\ \A n \in DOMAIN generatedAssets' :
                    generatedAssets'[n].catalogued
                    => generatedAssets'[n].assetId
                           \notin task'[generatedAssets'[n].jobId].catalogErrors]_vars

C13_Witness ==
    \E j \in JobIds :
        /\ productionJobs[j].status = "completed"
        /\ task[j].catalogErrors # {}
        /\ \E n \in DOMAIN generatedAssets :
               /\ generatedAssets[n].assetId \in task[j].catalogErrors
               /\ ~generatedAssets[n].catalogued

\* The steps the task of job j can take without the answer of the
\* cataloging call.
GoesOnWithoutCatalog(j) ==
    \/ ResolveScene(j)
    \/ MarkMatching(j)
    \/ \E accepted \in BOOLEAN : SubmitGeneration(j, accepted)
    \/ StoreScenes(j)
    \/ BeginAssembly(j)
    \/ \E rendered \in BOOLEAN : Render(j, rendered)
    \/ Complete(j)

\* C14: cataloging does not block the job: while the cataloging call of a
\* generated asset has not returned, the task can still go on to resolve
\* the remaining scenes and to assemble.
C14_CatalogingDoesNotBlock ==
    \A j \in JobIds :
        task[j].pc = "catalog" => ENABLED GoesOnWithoutCatalog(j)

\* The generated_assets row of scene s written by job j exists.
Recorded(j, s) ==
    \E n \in DOMAIN generatedAssets :
        generatedAssets[n].jobId = j /\ generatedAssets[n].sceneId = s

\* The generation request job j submitted for scene s has not ended: its
\* clip is not recorded and no error of it was thrown.
InFlight(j, s) ==
    /\ task[j].submits[s] >= 1
    /\ ~Recorded(j, s)
    /\ ~(task[j].pc = "done" /\ task[j].i = s)

\* C15: within one job the scenes are resolved one after another: at most
\* one generation request of the job is in flight, and the resolution of a
\* scene starts only after the clip of every earlier scene that needed
\* generation was downloaded and recorded, each earlier scene having its
\* resolved asset.
C15_ScenesResolvedOneAfterAnother ==
    \A j \in JobIds :
        /\ Cardinality({s \in Scenes : InFlight(j, s)}) <= 1
        /\ \A s \in Scenes : InFlight(j, s) => s = task[j].i
        /\ task[j].pc \notin {"start", "load"} =>
               \A k \in 1..(task[j].i - 1) :
                   /\ k <= Len(task[j].resolvedAssets)
                   /\ task[j].resolvedAssets[k].sceneId = k
                   /\ task[j].submits[k] >= 1 => Recorded(j, k)

C15_Witness ==
    \E j \in JobIds :
        /\ task[j].i = NScenes
        /\ InFlight(j, NScenes)
        /\ \A k \in 1..(NScenes - 1) : Recorded(j, k)

\* matchSceneToAssets has returned its list of matches.
Returned == search # NoSearch /\ search.pc = "returned"

\* The candidates that passed, or failed, the semantic test.
BelowSemanticMinimum ==
    {k \in DOMAIN search.candidates :
        SemanticScore(search.candidates[k]) < 72}

\* C16: the five weights sum to 1.0 and, for every match returned by
\* matchSceneToAssets, each of the five sub-scores and the composite lie in
\* [0,1].
C16_ScoresWithinUnitRange ==
    /\ semanticSimilarity + styleMatch + useCaseMatch + qualityScore
           + durationFit = 100
    /\ Returned =>
           \A n \in DOMAIN search.matches :
               LET m == search.matches[n] IN
               /\ m.semanticScore \in 0..100
               /\ m.styleScore \in 0..100
               /\ m.useCaseScore \in 0..100
               /\ m.qualityScore \in 0..100
               /\ m.durationScore \in 0..100
               /\ m.compositeScore \in 0..10000

\* C17: no candidate whose semantic score is below 0.72 is in the list
\* matchSceneToAssets returns, whatever its other four sub-scores are, and
\* none is chosen as the match.
C17_LowSemanticNeverListed ==
    Returned =>
        /\ \A n \in DOMAIN search.matches :
               /\ search.matches[n].semanticScore >= 72
               /\ search.matches[n].assetId \notin BelowSemanticMinimum
        /\ search.best # NoMatch =>
               search.best.assetId \notin BelowSemanticMinimum

C17_Witness ==
    /\ Returned
    /\ search.matches = <<>>
    /\ search.best = NoMatch
    /\ \E k \in BelowSemanticMinimum :
           LET asset == search.candidates[k] IN
           /\ asset.vector = <<71>>
           /\ calculateStyleScore(SearchScene, asset) = 100
           /\ calculateUseCaseScore(SearchScene, asset) = 100
           /\ calculateQualityScore(asset) = 100
           /\ calculateDurationScore(SearchScene, asset) = 100

\* C18: the review flag of every scored candidate is true if and only if
\* 0.78 <= composite < 0.90; a composite of exactly 0.78 is flagged and one
\* of exactly 0.90 is not.
C18_ReviewFlagBetweenThresholds ==
    Returned =>
        \A n \in DOMAIN search.matches :
            search.matches[n].needsReview
            <=> (7800 <= search.matches[n].compositeScore
                   /\ search.matches[n].compositeScore < 9000)

C18_Witness ==
    /\ Returned
    /\ \E n \in DOMAIN search.matches :
           /\ search.matches[n].compositeScore = 7800
           /\ search.matches[n].needsReview
    /\ \E n \in DOMAIN search.matches :
           /\ search.matches[n].compositeScore = 9000
           /\ ~search.matches[n].needsReview

\* C19: on the sorted list of matches getBestMatch returns the first entry,
\* which has the highest composite, exactly when its composite is at least
\* 0.78, and null otherwise, also for the empty list; shouldGenerate is true
\* exactly when getBestMatch returns null.
C19_BestMatchIsTopAboveMinimum ==
    Returned =>
        /\ IF search.matches # <<>> /\ search.matches[1].compositeScore >= 7800
           THEN /\ search.best = search.matches[1]
                /\ \A n \in DOMAIN search.matches :
                       search.best.compositeScore
                           >= search.matches[n].compositeScore
           ELSE search.best = NoMatch
        /\ search.generate <=> search.best = NoMatch

C19_Witness ==
    /\ Returned
    /\ Len(search.matches) = 2
    /\ search.matches[1].compositeScore = 7800
    /\ search.matches[2].compositeScore < 7800
    /\ search.best = search.matches[1]
    /\ ~search.generate

\* C20: the list matchSceneToAssets returns holds the candidates that
\* passed the semantic test, ordered by composite from highest to lowest;
\* candidates of equal composite keep the order in which the search
\* returned them.
C20_SortedByCompositeStable ==
    Returned =>
        /\ \A a, b \in DOMAIN search.matches :
               a < b =>
                   /\ search.matches[a].compositeScore
                          >= search.matches[b].compositeScore
                   /\ search.matches[a].compositeScore
                          = search.matches[b].compositeScore
                      => search.matches[a].assetId < search.matches[b].assetId
        /\ {search.matches[n].assetId : n \in DOMAIN search.matches}
               = DOMAIN search.candidates \ BelowSemanticMinimum
        /\ Len(search.matches)
               = Cardinality(DOMAIN search.candidates \ BelowSemanticMinimum)

C20_Witness ==
    /\ Returned
    /\ Len(search.candidates) = 4
    /\ Len(search.matches) = 3
    /\ search.matches[1].assetId = 3
    /\ search.matches[2].assetId = 1
    /\ search.matches[3].assetId = 4
    /\ search.matches[2].compositeScore = search.matches[3].compositeScore

\* C21: a candidate that carries no embedding is given the semantic score
\* 0.7 and is still scored: it is in the returned list with that semantic
\* score and the composite computed from it.
C21_VectorlessCandidateIsScored ==
    Returned =>
        \A k \in DOMAIN search.candidates :
            search.candidates[k].vector = NoVector =>
                \E n \in DOMAIN search.matches :
                    /\ search.matches[n].assetId = k
                    /\ search.matches[n].semanticScore = 70
                    /\ search.matches[n].compositeScore =
                           ScoredMatch(SearchScene,
                                       search.candidates[k]).compositeScore

\* ------------------------------------------------- calculateStyleScore
\* The arguments calculateStyleScore is applied to.
StyleKeywords == {{}, {"city"}, {"City", "night"}}
StyleHints ==
    {NoText, Text(<<>>), Text(<<Space>>), Text(<<"warm">>),
     Text(<<"Warm", Space, "night">>), Text(<<Space, "warm">>)}
StyleTags == {{}, {"city"}, {"City", "warm"}, {"sky"}}
StyleTexts == {NoText, Text(<<>>), Text(<<"warm">>),
               Text(<<"night", Space, "city">>)}

NoStyleScore == <<>>

InitStyle ==
    /\ ServiceAtRest
    /\ poll = NoPoll
    /\ search = NoSearch
    /\ assembly = NoAssembly
    /\ \E keywords \in StyleKeywords, hints \in StyleHints,
          tags \in StyleTags, style \in StyleTexts :
           styled = [pc |-> "called",
                     scene |-> [visualKeywords |-> keywords,
                                styleHints |-> hints],
                     asset |-> [tags |-> tags, style |-> style],
                     score |-> NoStyleScore]

StyleScoreCall ==
    /\ styled.pc = "called"
    /\ styled' = [styled EXCEPT
           !.pc = "returned",
           !.score = <<calculateStyleScore(styled.scene, styled.asset)>>]

NextStyle == StyleScoreCall /\ UNCHANGED <<serviceVars, poll, search, assembly>>

SpecStyle == InitStyle /\ [][NextStyle]_vars

\* The words of a text: what is left of it between its whitespace.
Words(text) ==
    IF text = NoText THEN {}
    ELSE {toLowerCase(text[1][n]) :
              n \in {m \in DOMAIN text[1] : text[1][m] # Space}}

SceneStyleTokens(scene) ==
    {toLowerCase(k) : k \in scene.visualKeywords} \cup Words(scene.styleHints)

AssetStyleTokens(asset) ==
    {toLowerCase(tg) : tg \in asset.tags} \cup Words(asset.style)

\* C22: the style score is 0.5 whenever the scene has no style token (no
\* visual keyword, and a style hint that is absent, empty or only whitespace)
\* or the candidate has none (no tag, and a style text that is absent or
\* empty); otherwise it is the number of scene tokens that are also candidate
\* tokens divided by the number of scene tokens, a value between 0 and 1.
C22_StyleScoreIsTokenOverlap ==
    styled.pc = "returned" =>
        LET sceneTokens == SceneStyleTokens(styled.scene)
            assetTokens == AssetStyleTokens(styled.asset)
        IN /\ styled.score[1] \in 0..100
           /\ styled.score[1] =
                  IF sceneTokens = {} \/ assetTokens = {} THEN 50
                  ELSE (100 * Cardinality(sceneTokens \cap assetTokens))
                           \div Cardinality(sceneTokens)

\* ------------------------------------------------- assembleStoryboard
\* Times are in milliseconds.
transitionDuration == 500

TransitionType == {"cut", "fade", "dissolve", "wipe"}
SceneDurations == {2000, 5000}

\* What a storyboard scene tells the assembler.
AssemblyScenes ==
    [duration : SceneDurations, transitionIn : TransitionType,
     transitionOut : TransitionType]

\* Arrays are indexed from 0 in the code.
At(array, i) == array[i + 1]

\* The resolved asset of position i.
LocalPath(i) == <<"clip", i>>
ResolvedAssets(n) == [k \in 1..n |-> [localPath |-> LocalPath(k - 1)]]

\* Stream labels of the filter graph: [i:v], [vi], [xfadei], [concati],
\* [outv], and the empty label.
InV(i) == <<"in", i>>
V(i) == <<"v", i>>
XFade(i) == <<"xfade", i>>
Concat(i) == <<"concat", i>>
OutV == <<"outv">>
NoLabel == <<>>
ConcatFile == <<"concat file">>

NoOffset == -1

\* One operation handed to the renderer.
ScaleFilter(input, output) ==
    [filter |-> "scale", transition |-> "none", duration |-> 0,
     offset |-> NoOffset, inputs |-> <<input>>, output |-> output]
XFadeFilter(transition, offset, inputs, output) ==
    [filter |-> "xfade", transition |-> transition,
     duration |-> transitionDuration, offset |-> offset,
     inputs |-> inputs, output |-> output]
ConcatFilter(inputs, output) ==
    [filter |-> "concat", transition |-> "none", duration |-> 0,
     offset |-> NoOffset, inputs |-> inputs, output |-> output]

\* assembleSimple: the concat file lists the clips, the one stream read from
\* it is scaled into the output.
assembleSimple(assets) ==
    [mode |-> "simple",
     inputs |-> <<ConcatFile>>,
     concatContent |-> [k \in DOMAIN assets |-> assets[k].localPath],
     filterParts |-> <<ScaleFilter(ConcatFile, OutV)>>]

\* The transition of the junction before clip i.
transitionTypeOfNext(scenes, i) == At(scenes, i).transitionIn
transitionType(scenes, i) == At(scenes, i - 1).transitionOut

\* The running offset after the junction before clip i.
OffsetAt(scenes, i, offset) ==
    IF i = 1 THEN At(scenes, 0).duration
    ELSE offset + At(scenes, i - 1).duration - transitionDuration

\* The label written by the junction before clip i, of n clips.
outLabelNeverFinal(type, i, n) ==
    IF type # "cut" THEN XFade(i) ELSE Concat(i)

\* Variant in which only a cut writes the final output label.
outLabelFinalAfterCut(type, i, n) ==
    IF i = n - 1 /\ type = "cut" THEN OutV
    ELSE IF type # "cut" THEN XFade(i) ELSE Concat(i)

outLabel(type, i, n) ==
    IF i = n - 1 THEN OutV
    ELSE IF type # "cut" THEN XFade(i) ELSE Concat(i)

\* The loop over the junctions, from the one before clip i on.
RECURSIVE Junctions(_, _, _, _, _)
Junctions(scenes, n, i, currentInput, offset) ==
    IF i > n - 1 THEN <<>>
    ELSE LET type == transitionType(scenes, i)
             newOffset == OffsetAt(scenes, i, offset)
             label == outLabel(type, i, n)
             part == IF type # "cut"
                     THEN XFadeFilter(
                              IF type = "wipe" THEN "wipeleft" ELSE type,
                              newOffset - transitionDuration,
                              <<currentInput, V(i)>>, label)
                     ELSE ConcatFilter(<<currentInput, V(i)>>, label)
             nextInput == IF label # OutV THEN label
                          ELSE IF type # "cut" THEN NoLabel
                          ELSE currentInput
         IN <<part>> \o Junctions(scenes, n, i + 1, nextInput, newOffset)

\* "First, scale all inputs"
scaleAll(n) == [k \in 1..n |-> ScaleFilter(InV(k - 1), V(k - 1))]

\* The scale filters followed by the junctions of the loop.
chainTransitions(n, scenes) == scaleAll(n) \o Junctions(scenes, n, 1, V(0), 0)

\* "Simple concatenation fallback": only the scale filters are kept.
concatFallback(n) ==
    scaleAll(n) \o <<ConcatFilter([k \in 1..n |-> V(k - 1)], OutV)>>

assembleWithTransitions(assets, scenes) ==
    LET n == Len(assets)
        paths == [k \in DOMAIN assets |-> assets[k].localPath]
        chained == chainTransitions(n, scenes)
    IN IF n = 1
       THEN [mode |-> "single", inputs |-> paths, concatContent |-> <<>>,
             filterParts |-> <<ScaleFilter(InV(0), OutV)>>]
       ELSE [mode |-> "transitions", inputs |-> paths, concatContent |-> <<>>,
             filterParts |-> IF chained[Len(chained)].output # OutV
                             THEN concatFallback(n) ELSE chained]

hasTransitionsWhenSeveral(scenes) == Len(scenes) > 1
hasTransitions(scenes) ==
    \E k \in DOMAIN scenes :
        scenes[k].transitionIn # "cut" \/ scenes[k].transitionOut # "cut"

NoPlan == [mode |-> "none"]

assembleStoryboard ==
    /\ assembly.pc = "called"
    /\ assembly' = [assembly EXCEPT
           !.pc = "assembled",
           !.plan = IF hasTransitions(assembly.scenes)
                    THEN assembleWithTransitions(assembly.assets,
                                                 assembly.scenes)
                    ELSE assembleSimple(assembly.assets)]

InitAssembly ==
    /\ ServiceAtRest
    /\ poll = NoPoll
    /\ search = NoSearch
    /\ styled = NoStyled
    /\ \E n \in 0..MaxClips : \E scenes \in [1..n -> AssemblyScenes] :
           assembly = [pc |-> "called", scenes |-> scenes,
                       assets |-> ResolvedAssets(n), plan |-> NoPlan]

NextAssembly ==
    assembleStoryboard /\ UNCHANGED <<serviceVars, poll, search, styled>>

SpecAssembly == InitAssembly /\ [][NextAssembly]_vars

\* ------------------------------------------------- properties of the plan
Assembled == assembly.pc = "assembled"
TransitionPlan == Assembled /\ assembly.plan.mode = "transitions"

\* The filter part of the junction before clip i.
JunctionPart(i) == assembly.plan.filterParts[Len(assembly.assets) + i]

\* The summed durations of the scenes before clip i.
RECURSIVE DurationBefore(_, _)
DurationBefore(scenes, i) ==
    IF i = 0 THEN 0
    ELSE DurationBefore(scenes, i - 1) + At(scenes, i - 1).duration

\* The junctions before clip i that are cross-transitions.
CrossedBefore(scenes, i) ==
    {j \in 1..(i - 1) : At(scenes, j - 1).transitionOut # "cut"}

\* The length of the stream combined from the clips before clip i.
CombinedLength(scenes, i) ==
    DurationBefore(scenes, i)
        - transitionDuration * Cardinality(CrossedBefore(scenes, i))

\* C23: in a transition plan the running offset at a junction is the sum of
\* the durations of the scenes before it, less 0.5 s for each earlier
\* junction that is a cross-transition and nothing for an earlier cut: every
\* cross-transition starts 0.5 s before the end of the stream combined so far.
C23_OffsetCountsOnlyCrossTransitions ==
    TransitionPlan =>
        \A i \in 1..(Len(assembly.assets) - 1) :
            JunctionPart(i).filter = "xfade" =>
                JunctionPart(i).offset =
                    CombinedLength(assembly.scenes, i) - transitionDuration

\* The scenes with every transitionIn, and the transitionOut of the last
\* scene, set to cut.
OnlyJunctionTransitions(scenes) ==
    [k \in DOMAIN scenes |->
        [scenes[k] EXCEPT !.transitionIn = "cut",
                          !.transitionOut =
                              IF k = Len(scenes) THEN "cut" ELSE @]]

Readers(label) ==
    {pq \in (DOMAIN assembly.plan.filterParts) \X (1..MaxClips) :
        /\ pq[2] \in DOMAIN assembly.plan.filterParts[pq[1]].inputs
        /\ assembly.plan.filterParts[pq[1]].inputs[pq[2]] = label}

PartsOf(filters) ==
    {p \in DOMAIN assembly.plan.filterParts :
        assembly.plan.filterParts[p].filter \in filters}

\* C25: for n >= 1 resolved assets the transition planner makes n normalize
\* steps, n-1 junction steps and one step that writes the final output; each
\* normalized input is read once, in index order, and each intermediate
\* output is read once, by the next junction.
C25_PlanChainsEveryInputOnce ==
    (Assembled /\ assembly.plan.mode \in {"single", "transitions"}) =>
        LET n == Len(assembly.assets)
            parts == assembly.plan.filterParts
        IN /\ Cardinality(PartsOf({"scale"})) = n
           /\ Cardinality(PartsOf({"xfade", "concat"})) = n - 1
           /\ Cardinality({p \in DOMAIN parts : parts[p].output = OutV}) = 1
           /\ \A i \in 0..(n - 1) :
                  /\ parts[i + 1].filter = "scale"
                  /\ parts[i + 1].inputs = <<InV(i)>>
                  /\ n > 1 =>
                         /\ parts[i + 1].output = V(i)
                         /\ Readers(V(i)) =
                                {<<n + (IF i = 0 THEN 1 ELSE i),
                                   IF i = 0 THEN 1 ELSE 2>>}
           /\ \A i \in 1..(n - 2) :
                  Readers(parts[n + i].output) = {<<n + i + 1, 1>>}

C25_Witness ==
    /\ TransitionPlan
    /\ Len(assembly.assets) = 3
    /\ JunctionPart(1).filter = "xfade"
    /\ JunctionPart(1).output = XFade(1)
    /\ JunctionPart(2).inputs = <<XFade(1), V(2)>>
    /\ JunctionPart(2).output = OutV

\* C26: when no scene has a transition other than cut the clips are
\* concatenated in the given order with no transition step; the transition
\* planner runs only when some scene has a transitionIn or a transitionOut
\* that is not cut.
C26_PlainConcatWithoutTransitions ==
    Assembled =>
        LET nonCut == {k \in DOMAIN assembly.scenes :
                          \/ assembly.scenes[k].transitionIn # "cut"
                          \/ assembly.scenes[k].transitionOut # "cut"}
        IN /\ nonCut = {} =>
                  /\ assembly.plan.mode = "simple"
                  /\ assembly.plan.concatContent =
                         [k \in DOMAIN assembly.assets |-> LocalPath(k - 1)]
                  /\ PartsOf({"xfade", "concat"}) = {}
           /\ assembly.plan.mode # "simple" => nonCut # {}

C26_Witness ==
    /\ Assembled
    /\ Len(assembly.assets) = 3
    /\ \A k \in DOMAIN assembly.scenes :
           /\ assembly.scenes[k].transitionIn = "cut"
           /\ assembly.scenes[k].transitionOut = "cut"
    /\ assembly.plan.mode = "simple"
    /\ Len(assembly.plan.concatContent) = 3

\* ------------------------------------------------- POST /
\* An optional field of the request is left out (NotGiven) or holds one
\* value.
NotGiven == <<>>
Given(value) == <<value>>

\* The scenes a request can supply: any positions, in any order.
SceneInputs ==
    [sequence : 1..MaxSequence, duration : {5}, description : {"aerial view"},
     visualKeywords : {{"city", "night"}}, styleHints : {NoText},
     transitionIn : {NotGiven}, transitionOut : {NotGiven, Given("fade")}]

OutputInputs ==
    {[outputResolution |-> NotGiven, outputFps |-> NotGiven],
     [outputResolution |-> Given(<<1280, 720>>), outputFps |-> Given(24)]}

\* value || fallback
OrElse(value, fallback) == IF value = NotGiven THEN fallback ELSE value[1]

\* The stored scene made from the input at position k.  Its generated id is
\* written k; the ids of a storyboard differ from each other.
CreatedScene(k, input) ==
    [sceneId |-> k, sequence |-> input.sequence, duration |-> input.duration,
     description |-> input.description,
     visualKeywords |-> input.visualKeywords,
     styleHints |-> input.styleHints,
     transitionIn |-> OrElse(input.transitionIn, "cut"),
     transitionOut |-> OrElse(input.transitionOut, "cut"),
     matchedAssetId |-> NewScene.matchedAssetId,
     matchScore |-> NewScene.matchScore,
     assetSource |-> NewScene.assetSource,
     needsReview |-> NewScene.needsReview]

CreatedScenes(inputs) == [k \in DOMAIN inputs |-> CreatedScene(k, inputs[k])]

CreatedRow(output) ==
    [title |-> "title",
     outputWidth |-> OrElse(output.outputResolution, <<1920, 1080>>)[1],
     outputHeight |-> OrElse(output.outputResolution, <<1920, 1080>>)[2],
     outputFps |-> OrElse(output.outputFps, 30)]

\* What was asked for a scene before: nothing, a matching pass that found a
\* match (one to review, or an excellent one) or none, or an override.
Earlier == {"nothing", "review", "excellent", "unmatched", "override"}

EarlierBest(s, earlier) ==
    getBestMatch(matchSceneToAssets(s,
        IF earlier = "review" THEN 8000 ELSE 9500))

SceneAfter(scene, s, earlier) ==
    CASE earlier = "nothing" -> scene
      [] earlier \in {"review", "excellent"} ->
             MatchedScene(scene, EarlierBest(s, earlier))
      [] earlier = "unmatched" -> [scene EXCEPT !.assetSource = "generated"]
      [] earlier = "override" -> OverriddenScene(scene, ManualAsset)

RowsAfter(s, earlier) ==
    CASE earlier \in {"review", "excellent"} ->
             <<MatchRow(s, EarlierBest(s, earlier))>>
      [] earlier = "override" ->
             <<[sceneId |-> s, assetId |-> ManualAsset,
                assetPath |-> ManualPath, source |-> "manual",
                compositeScore |-> 10000, needsReview |-> FALSE]>>
      [] OTHER -> <<>>

RECURSIVE RowsOfScenes(_, _)
RowsOfScenes(earlier, s) ==
    IF s = 0 THEN <<>>
    ELSE RowsOfScenes(earlier, s - 1) \o RowsAfter(s, earlier[s])

\* The request that gives the scenes in ascending positions and leaves out
\* what it can.
PlainInputs ==
    [s \in Scenes |->
        [sequence |-> s, duration |-> 5, description |-> "aerial view",
         visualKeywords |-> {"city", "night"}, styleHints |-> NoText,
         transitionIn |-> NotGiven, transitionOut |-> NotGiven]]
PlainOutput == [outputResolution |-> NotGiven, outputFps |-> NotGiven]

\* A storyboard created from any request, or the one of the plain request
\* after earlier requests for its scenes; the requests and the jobs of the
\* behaviour are counted from here.
InitStoryboard ==
    \E inputs \in [Scenes -> SceneInputs], output \in OutputInputs,
       earlier \in [Scenes -> Earlier] :
        /\ \/ \A s \in Scenes : earlier[s] = "nothing"
           \/ inputs = PlainInputs /\ output = PlainOutput
        /\ scenesJson = [s \in Scenes |->
               SceneAfter(CreatedScenes(inputs)[s], s, earlier[s])]
        /\ storyboardRow = CreatedRow(output)
        /\ sceneMatches = RowsOfScenes(earlier, NScenes)
        /\ generatedAssets = <<>>
        /\ productionJobs = <<>>
        /\ task = <<>>
        /\ matchPass = [pc |-> "idle", made |-> 0, k |-> NScenes + 1,
                        scenes |-> scenesJson, results |-> <<>>]
        /\ overrides = 0
        /\ response = [code |-> 0, id |-> "none", health |-> "none",
                       jobsBefore |-> 0]
        /\ poll = NoPoll
        /\ search = NoSearch
        /\ styled = NoStyled
        /\ assembly = NoAssembly

\* The matching, override and production requests, and the job they start.
NextStoryboard ==
    \/ /\ Len(productionJobs) < MaxProductions
       /\ Produce(StoryboardId, "healthy") /\ ComponentsIdle
    \/ \E s \in Scenes : Override(s, ManualAsset, ManualPath) /\ ComponentsIdle
    \/ MatchBegin /\ ComponentsIdle
    \/ \E top \in TopComposites : MatchScene(TRUE, top) /\ ComponentsIdle
    \/ MatchScene(FALSE, 0) /\ ComponentsIdle
    \/ MatchEnd /\ ComponentsIdle
    \/ \E j \in JobIds : JobBegin(j) /\ ComponentsIdle
    \/ \E j \in JobIds : LoadStoryboard(j) /\ ComponentsIdle
    \/ \E j \in JobIds : ResolveScene(j) /\ ComponentsIdle
    \/ \E j \in JobIds : MarkMatching(j) /\ ComponentsIdle
    \/ \E j \in JobIds, accepted \in BOOLEAN : SubmitGeneration(j, accepted) /\ ComponentsIdle
    \/ \E j \in JobIds, outcome \in PollOutcomes : PollUntilComplete(j, outcome) /\ ComponentsIdle
    \/ \E j \in JobIds, fetched \in BOOLEAN : DownloadVideo(j, fetched) /\ ComponentsIdle
    \/ \E j \in JobIds : RecordGenerated(j) /\ ComponentsIdle
    \/ \E j \in JobIds, catalogued \in BOOLEAN : Catalog(j, catalogued) /\ ComponentsIdle
    \/ \E j \in JobIds : StoreScenes(j) /\ ComponentsIdle
    \/ \E j \in JobIds : BeginAssembly(j) /\ ComponentsIdle
    \/ \E j \in JobIds, rendered \in BOOLEAN : Render(j, rendered) /\ ComponentsIdle
    \/ \E j \in JobIds : Complete(j) /\ ComponentsIdle

SpecStoryboard == InitStoryboard /\ [][NextStoryboard]_vars

\* ------------------------------------------------- properties of the storyboard
\* The scene a resolved asset of job j belongs to, as the job loaded it.
SceneOfAsset(j, asset) == task[j].scenes[asset.sceneId]

\* C27: the scenes are resolved and handed to the assembly in ascending
\* sequence position, and no two scenes of the stored storyboard have the
\* same position, in whatever order the request gave them.
C27_ResolvedInAscendingSequence ==
    /\ \A s, t \in DOMAIN scenesJson :
           s # t => scenesJson[s].sequence # scenesJson[t].sequence
    /\ \A j \in JobIds :
           \A k, l \in DOMAIN task[j].resolvedAssets :
               k < l => SceneOfAsset(j, task[j].resolvedAssets[k]).sequence
                            < SceneOfAsset(j, task[j].resolvedAssets[l]).sequence

\* The fields of a stored scene that no resolution writes.
StructureFields ==
    {"sceneId", "sequence", "duration", "description", "visualKeywords",
     "styleHints", "transitionIn", "transitionOut"}

Structure(scene) == [f \in StructureFields |-> scene[f]]

\* C28: no step of a matching pass, an override or a production job changes
\* the number of scenes, their order and ids, their sequence positions,
\* durations, descriptions, keywords and transitions, or the output settings
\* of the storyboard: only resolution fields change.
C28_OnlyResolutionFieldsChange ==
    [][/\ DOMAIN scenesJson' = DOMAIN scenesJson
       /\ \A s \in DOMAIN scenesJson :
              Structure(scenesJson'[s]) = Structure(scenesJson[s])
       /\ storyboardRow' = storyboardRow]_vars

C28_Witness ==
    /\ scenesJson[1].sequence = 2
    /\ scenesJson[2].sequence = 1
    /\ scenesJson[1].transitionOut = "fade"
    /\ storyboardRow.outputFps = 24
    /\ matchPass.made = 1 /\ matchPass.pc = "idle"
    /\ overrides = 1
    /\ scenesJson[1].assetSource = "manual"
    /\ scenesJson[2].assetSource = "generated"
    /\ scenesJson[2].matchScore = 10000
    /\ \E j \in JobIds : productionJobs[j].status = "completed"

\* A scene as an override to ManualAsset leaves it.
IsOverridden(scene) ==
    /\ scene.matchedAssetId = ManualAsset
    /\ scene.matchScore = 10000
    /\ scene.assetSource = "manual"
    /\ scene.needsReview = FALSE

\* C29: an override leaves its scene with source manual, score 1.0 and no
\* review flag, whatever the resolution of the scene was, and leaves the
\* other scenes alone; an override of a scene that the same override was
\* applied to before changes nothing in the stored scenes.
C29_OverrideSetsManualAndIsIdempotent ==
    [][overrides' = overrides + 1 =>
          \E s \in Scenes :
              /\ IsOverridden(scenesJson'[s])
              /\ \A t \in Scenes \ {s} : scenesJson'[t] = scenesJson[t]
              /\ IsOverridden(scenesJson[s]) => scenesJson' = scenesJson]_vars

C29_Witness ==
    /\ overrides = 1
    /\ \E s \in Scenes :
           /\ IsOverridden(scenesJson[s])
           /\ Cardinality({n \in DOMAIN sceneMatches :
                  /\ sceneMatches[n].sceneId = s
                  /\ sceneMatches[n].source = "manual"}) = 2
    /\ \E s \in Scenes :
           /\ IsOverridden(scenesJson[s])
           /\ \E n \in DOMAIN sceneMatches :
                  /\ sceneMatches[n].sceneId = s
                  /\ sceneMatches[n].source = "existing"
                  /\ sceneMatches[n].needsReview

\* The scenes job j has generated.
GeneratedIn(j) ==
    {generatedAssets[n].sceneId :
        n \in {m \in DOMAIN generatedAssets : generatedAssets[m].jobId = j}}

\* C30: when a job stores the storyboard, every scene it generated is stored
\* with source generated, score 1.0 and no review flag, whatever the scene
\* was before, a scene matched with the review flag and later marked for
\* generation included.
C30_GeneratedSceneIsStoredUnflagged ==
    [][\A j \in JobIds :
          (task[j].pc = "scene" /\ task'[j].pc = "assemble") =>
              \A s \in GeneratedIn(j) :
                  /\ scenesJson'[s].assetSource = "generated"
                  /\ scenesJson'[s].matchScore = 10000
                  /\ scenesJson'[s].needsReview = FALSE]_vars

\* The step in which job j enters the status assembling.
EntersAssembling(j) == task[j].pc = "assemble" /\ task'[j].pc = "render"

\* C31: when a job enters assembling it holds one resolved asset for each
\* scene of the storyboard, the k-th asset carrying the id of the k-th
\* scene, and no step changes a resolved asset once it is produced.
C31_OneResolvedAssetPerScene ==
    [][\A j \in JobIds :
          /\ \A k \in DOMAIN task[j].resolvedAssets :
                 /\ k \in DOMAIN task'[j].resolvedAssets
                 /\ task'[j].resolvedAssets[k] = task[j].resolvedAssets[k]
          /\ EntersAssembling(j) =>
                 /\ DOMAIN task[j].resolvedAssets = DOMAIN task[j].scenes
                 /\ \A k \in DOMAIN task[j].scenes :
                        task[j].resolvedAssets[k].sceneId
                            = task[j].scenes[k].sceneId]_vars

C31_Witness ==
    \E j \in JobIds :
        /\ task[j].pc = "render"
        /\ productionJobs[j].status = "assembling"
        /\ Len(task[j].resolvedAssets) = NScenes
        /\ task[j].resolvedAssets[1].source = "existing"
        /\ task[j].resolvedAssets[2].source = "generated"

\* A turn of the loop of the matching pass, and the end of the pass.
MatchTurn ==
    matchPass.pc = "running" /\ matchPass'.pc = "running"
        /\ matchPass' # matchPass
MatchReturns == matchPass.pc = "running" /\ matchPass'.pc = "idle"

\* C32: every turn of the matching pass reports one result for its scene and
\* goes on to the next scene; a turn whose embedding or search call fails
\* stores nothing and reports the scene for generation, without a second
\* call; the pass returns one result for each scene.
C32_FailedFetchIsReportedAndPassGoesOn ==
    [][/\ MatchTurn =>
              /\ matchPass'.k = matchPass.k + 1
              /\ Len(matchPass'.results) = Len(matchPass.results) + 1
              /\ SubSeq(matchPass'.results, 1, Len(matchPass.results))
                     = matchPass.results
              /\ matchPass'.results[matchPass.k].sceneId = matchPass.k
              /\ (matchPass'.scenes = matchPass.scenes
                      /\ sceneMatches' = sceneMatches)
                     => matchPass'.results[matchPass.k].action = "generate"
       /\ MatchReturns =>
              /\ Len(matchPass.results) = NScenes
              /\ \A k \in Scenes : matchPass.results[k].sceneId = k]_vars

C32_Witness ==
    /\ matchPass.pc = "idle"
    /\ matchPass.made = 1
    /\ Len(matchPass.results) = NScenes
    /\ matchPass.results[1].action = "generate"
    /\ matchPass.scenes[1] = NewScene
    /\ matchPass.results[2].action = "matched"
    /\ matchPass.scenes[2].assetSource = "existing"

\* C33: a cancel request for a job that is completed or failed changes no
\* job record; for a job in any other status it sets the status failed and
\* the error 'Cancelled by user', and leaves the progress, the output path
\* and every other job as they are.
C33_CancelOnlyBeforeTheEnd ==
    [][\A j \in JobIds :
          Cancel(j) =>
              IF productionJobs[j].status \in {"completed", "failed"}
              THEN productionJobs' = productionJobs
              ELSE /\ productionJobs'[j].status = "failed"
                   /\ productionJobs'[j].error = CancelMsg
                   /\ productionJobs'[j].progress = productionJobs[j].progress
                   /\ productionJobs'[j].outputPath
                          = productionJobs[j].outputPath
                   /\ \A other \in JobIds \ {j} :
                          productionJobs'[other] = productionJobs[other]]_vars

C33_Witness ==
    \E j \in JobIds :
        /\ productionJobs[j].status = "failed"
        /\ productionJobs[j].error = CancelMsg
        /\ productionJobs[j].progress = LoopProgress(1)
        /\ task[j].pc = "poll"

\* The step of a job that writes its scenes back to the storyboard.
WritesBack(j) == task[j].pc = "scene" /\ task'[j].pc = "assemble"

\* C34: a scene that was overridden after the job loaded the storyboard is
\* still resolved by the manual override once the job has written the
\* storyboard back.
C34_OverrideDuringJobIsKept ==
    [][\A j \in JobIds :
          WritesBack(j) =>
              \A s \in Scenes :
                  (IsOverridden(scenesJson[s]) /\ ~IsOverridden(task[j].row[s]))
                      => IsOverridden(scenesJson'[s])]_vars

\* C35: the local path of every resolved asset that a job reused from an
\* `existing` resolution is the path that the match history records, for
\* the scene, with the asset the scene is resolved to.
C35_ReusedPathIsThatOfTheMatchedAsset ==
    \A j \in JobIds :
        \A k \in DOMAIN task[j].resolvedAssets :
            LET asset == task[j].resolvedAssets[k] IN
            asset.source = "existing" =>
                \E r \in DOMAIN sceneMatches :
                    /\ sceneMatches[r].sceneId = asset.sceneId
                    /\ sceneMatches[r].assetId = asset.assetId
                    /\ sceneMatches[r].assetPath = asset.localPath

\* C36: a job record carries an error only with the status failed and an
\* output path only with the status completed.
C36_ErrorOnlyFailedOutputOnlyCompleted ==
    \A j \in JobIds :
        /\ productionJobs[j].error # NoError
               => productionJobs[j].status = "failed"
        /\ productionJobs[j].outputPath # NoAsset
               => productionJobs[j].status = "completed"

\* C37: the stored progress of a job starts at 0, never decreases and stays
\* between 0 and 1; an update to matching or generating stores
\* 0.1 + 0.7 * i / n for the scene i (counted from 0) that is being
\* resolved, the update to assembling stores 0.85, 1.0 is stored only with
\* completed, and a step that fails the job leaves the progress alone.
C37_ProgressOnlyGrows ==
    [][/\ \A j \in JobIds :
            LET before == productionJobs[j]
                after == productionJobs'[j]
            IN
            /\ after.progress >= before.progress
            /\ after.progress \in 0..CompletedProgress
            /\ (after # before /\ after.status \in {"matching", "generating"})
                   => after.progress = LoopProgress(task[j].i - 1)
            /\ task'[j].pc \in {"submit", "poll", "download", "record",
                                "catalog"}
                   => after.progress = LoopProgress(task'[j].i - 1)
            /\ (after # before /\ after.status = "assembling")
                   => after.progress = AssemblingProgress
            /\ after.progress = CompletedProgress
                   => after.status = "completed"
            /\ (after.status = "failed" /\ before.status # "failed")
                   => after.progress = before.progress
       /\ Len(productionJobs') > Len(productionJobs)
              => productionJobs'[Len(productionJobs')].progress = 0]_vars

C37_Witness ==
    /\ Len(productionJobs) = 2
    /\ productionJobs[1].status = "completed"
    /\ productionJobs[1].progress = CompletedProgress
    /\ productionJobs[2].status = "failed"
    /\ productionJobs[2].error = GenerationFailedMsg
    /\ productionJobs[2].progress = LoopProgress(1)

\* C38: for two or more clips and every combination of transition kinds the
\* last junction of the chain writes the final output label, so the plan is
\* the chain and the concatenation of all clips is not put in its place;
\* that concatenation would be the n normalize steps followed by one step
\* that concatenates the n normalized inputs, in order, to the final output.
C38_ChainEndsAtFinalOutput ==
    (TransitionPlan /\ Len(assembly.assets) >= 2) =>
        LET n == Len(assembly.assets)
            chained == chainTransitions(n, assembly.scenes)
            fallback == concatFallback(n)
        IN /\ Len(chained) = 2 * n - 1
           /\ chained[2 * n - 1].output = OutV
           /\ assembly.plan.filterParts = chained
           /\ JunctionPart(n - 1).output = OutV
           /\ Len(assembly.plan.filterParts[2 * n - 1].inputs) = 2
           /\ Len(fallback) = n + 1
           /\ \A k \in 1..n :
                  /\ fallback[k].filter = "scale"
                  /\ fallback[k].inputs = <<InV(k - 1)>>
                  /\ fallback[k].output = V(k - 1)
           /\ fallback[n + 1].filter = "concat"
           /\ fallback[n + 1].inputs = [k \in 1..n |-> V(k - 1)]
           /\ fallback[n + 1].output = OutV

C38_Witness ==
    /\ TransitionPlan
    /\ Len(assembly.assets) = 3
    /\ JunctionPart(1).filter = "xfade"
    /\ JunctionPart(2).filter = "concat"
    /\ JunctionPart(2).inputs = <<XFade(1), V(2)>>
    /\ JunctionPart(2).output = OutV

\* C39: when a matching pass returns, the scenes it reports as matched are
\* the scenes whose stored asset source is `existing`.
C39_ReportedMatchedIffStoredExisting ==
    [][MatchReturns =>
          \A k \in DOMAIN matchPass'.results :
              LET result == matchPass'.results[k] IN
              result.action = "matched"
                  <=> scenesJson'[result.sceneId].assetSource = "existing"]_vars

\* C40: a job whose stored status is pending, matching, generating or
\* assembling comes to the status completed or failed, and a poll loop that
\* was entered is left; no job stays in a status before the end for ever.
C40_EveryJobEnds ==
    /\ \A j \in 1..MaxJobs :
           (j \in JobIds /\ productionJobs[j].status \notin Terminal)
               ~> (j \in JobIds /\ productionJobs[j].status \in Terminal)
    /\ (poll.pc = "head") ~> (poll.pc = "done")

C40_Witness ==
    /\ Len(productionJobs) = 2
    /\ productionJobs[1].status = "failed"
    /\ productionJobs[1].error = TimeoutMsg
    /\ task[1].pc = "done"
    /\ productionJobs[2].status = "completed"
    /\ task[2].pc = "done"

====
